---- MODULE Spec2Model ----
(***************************************************************************)
(* ShardWriter (src/imageomics/wds.py): writer instances that share one    *)
(* lock-protected shard counter, each rotating through numbered shard      *)
(* files capped by record count and byte size.                             *)
(*                                                                         *)
(* The archive library (webdataset.TarWriter), the file system and the     *)
(* shared counter (multiprocessing.Value) are the environment: an open, an *)
(* archive write and an archive close either succeed or raise.             *)
(***************************************************************************)
EXTENDS Integers, Sequences, FiniteSets, TLC

\* ------------------------------------------------------------------ bounds
NumWriters == 2
\* calls (write, finish, close) the writers make together when all of them run
MaxCalls == 2
\* calls the single writer makes when it runs alone
MaxSoloCalls == 7
\* calls the writers together make in a fairly scheduled run
MaxFairCalls == 1
\* calls of get_autocast in a run
MaxLookups == 4

Writers == 1..NumWriters

\* --------------------------------------------------------- Python values
\* None, as the value of self.tarstream (a stream is a number >= 1)
None == 0
\* an attribute that is not bound: never assigned, or removed by del
Absent == -1
\* self.fname: None is the empty tuple, a name s is <<s>>
NoName == << >>

\* ------------------------------------------------------------ arguments
\* Filename patterns: text before the conversion, the conversion, text after.
\* "06d" is the spec's example "shard-%06d.tar"; "" is a pattern with no
\* substitution site; ".1s" keeps the first character of str(index) and is
\* not injective in the index.
Patterns ==
    { [pre |-> "shard-", conv |-> "06d", post |-> ".tar"],
      [pre |-> "shard",  conv |-> "",    post |-> ".tar"],
      [pre |-> "part-",  conv |-> ".1s", post |-> ".tar"] }
MaxCounts == {0, 1, 3, 1000}
MaxSizes == {10, 1000}
\* bytes the archive writer reports for one record
RecordSizes == {1, 6}
\* initial values of the shared counter
InitialValues == {0, 9}

Digit(d) == <<"0", "1", "2", "3", "4", "5", "6", "7", "8", "9">>[d + 1]

RECURSIVE Dec(_)
\* str(n) for n >= 0
Dec(n) == IF n < 10 THEN Digit(n) ELSE Dec(n \div 10) \o Digit(n % 10)

RECURSIVE Digits(_)
\* number of characters of str(n)
Digits(n) == IF n < 10 THEN 1 ELSE 1 + Digits(n \div 10)

RECURSIVE Zeros(_)
Zeros(k) == IF k <= 0 THEN "" ELSE "0" \o Zeros(k - 1)

RECURSIVE First(_)
\* str(n)[:1]
First(n) == IF n < 10 THEN Digit(n) ELSE First(n \div 10)

\* pattern % n raises TypeError ("not all arguments converted")
FormatRaises(p, n) == p.conv = ""

\* pattern % n
Format(p, n) ==
    IF p.conv = "06d" THEN p.pre \o Zeros(6 - Digits(n)) \o Dec(n) \o p.post
    ELSE IF p.conv = ".1s" THEN p.pre \o First(n) \o p.post
    ELSE p.pre \o p.post

\* ----------------------------------------------------------------- state
VARIABLES
    args,      \* what every writer is constructed with, the counter's initial value, record sizes
    value,     \* shard_counter.value
    lock,      \* holder of shard_counter.get_lock(); 0 when free
    files,     \* the file system: name -> times opened "wb", records in the file
    streams,   \* per writer, the TarWriter objects it has constructed, in order, each with
               \* its file, its state and the records and bytes written through it
    self,      \* per writer, the attributes of the instance
    pc,        \* per writer, the line it is at
    op,        \* per writer, the call of the caller that is running
    exc,       \* per writer, the exception that propagated to the caller
    runs,      \* the writers that run
    quota,     \* the calls the callers may still make, all writers together
    hist,      \* per writer, history of its calls
    claimed,   \* the index claims completed so far, in order: <<writer, value>>
    lookups    \* the calls of get_autocast made so far: the argument and what was returned

vars == <<args, value, lock, files, streams, self, pc, op, exc, runs, quota, hist, claimed,
          lookups>>

shared == <<value, lock, files, claimed>>

NoSelf ==
    [ tarstream |-> Absent, shard |-> Absent, count |-> Absent, size |-> Absent,
      total |-> Absent, fname |-> NoName, pattern |-> NoName, maxcount |-> Absent,
      maxsize |-> Absent ]

NoHist ==
    [ calls |-> 0, writes |-> 0, plain |-> TRUE, failedAt |-> 0,
      exitCloses |-> 0, exitRaised |-> FALSE, closed |-> FALSE ]

\* arguments when writer 1 runs alone
SoloArgs ==
    [ pattern : Patterns, maxcount : MaxCounts, maxsize : MaxSizes, initial : InitialValues,
      sizes : {RecordSizes} ]

\* arguments when all writers run: every second write rotates
TogetherArgs ==
    [ pattern : Patterns, maxcount : {1}, maxsize : {10}, initial : InitialValues,
      sizes : {{6}} ]

InitWith(who, calls, argsets) ==
    /\ args \in argsets
    /\ value = args.initial
    /\ lock = 0
    /\ files = [f \in {} |-> 0]
    /\ streams = [i \in Writers |-> << >>]
    /\ self = [i \in Writers |-> NoSelf]
    /\ pc = [i \in Writers |-> "unborn"]
    /\ op = [i \in Writers |-> "none"]
    /\ exc = [i \in Writers |-> "none"]
    /\ runs = who
    /\ quota = calls
    /\ hist = [i \in Writers |-> NoHist]
    /\ claimed = << >>
    /\ lookups = << >>

\* every writer runs; together they make up to MaxCalls calls
Init == InitWith(Writers, MaxCalls, TogetherArgs)

\* writer 1 runs alone, making up to MaxSoloCalls calls
InitSolo == InitWith({1}, MaxSoloCalls, SoloArgs)

\* ------------------------------------------------------------- helpers
\* the stream self.tarstream refers to
Cur(i) == streams[i][self[i].tarstream]

HasStream(i) == self[i].tarstream >= 1

\* what the history records when exception leaves call o (h: the history so far)
HistRaise(i, o, h) ==
    IF o = "write"
    THEN [h EXCEPT !.failedAt = IF HasStream(i) THEN self[i].tarstream ELSE 0,
                   !.plain = FALSE]
    ELSE IF o = "exit" THEN [h EXCEPT !.exitRaised = TRUE]
    ELSE [h EXCEPT !.plain = FALSE]

\* where the caller is after an exception left call o
Raised(o) ==
    IF o = "init" THEN "failed"
    ELSE IF o = "exit" THEN "done"
    ELSE "raised"

\* exception e propagates out of call o of writer i
Throw(i, e, o, h) ==
    /\ pc' = [pc EXCEPT ![i] = Raised(o)]
    /\ exc' = [exc EXCEPT ![i] = e]
    /\ hist' = [hist EXCEPT ![i] = HistRaise(i, o, h)]

\* writer i goes on at line l
Goto(i, l, h) ==
    /\ pc' = [pc EXCEPT ![i] = l]
    /\ hist' = [hist EXCEPT ![i] = h]
    /\ UNCHANGED exc

\* -------------------------------------------------------------- finish
\* a finish that closes the stream and keeps referring to it
finish_of_keeping(i, ok) ==
    IF self[i].tarstream = Absent
    THEN [exc |-> "AttributeError", me |-> self[i], tars |-> streams[i]]
    ELSE IF self[i].tarstream = None
    THEN [exc |-> "none", me |-> self[i], tars |-> streams[i]]
    ELSE IF ~ok
    THEN [exc |-> "OSError", me |-> self[i], tars |-> streams[i]]
    ELSE [exc |-> "none", me |-> self[i],
          tars |-> [streams[i] EXCEPT ![self[i].tarstream] =
                      [@ EXCEPT !.state = "closed", !.closes = @ + 1]]]

\* a finish() that forgets the stream without closing it
finish_of_dropping(i, ok) ==
    IF self[i].tarstream = Absent
    THEN [exc |-> "AttributeError", me |-> self[i], tars |-> streams[i]]
    ELSE [exc |-> "none", me |-> [self[i] EXCEPT !.tarstream = None], tars |-> streams[i]]

\* lines 75-79 on writer i; ok: tarstream.close() succeeds (a failed close
\* raises and leaves the archive unfinalized). The result: the exception
\* raised, the instance and its streams afterwards.
finish_of(i, ok) ==
    IF self[i].tarstream = Absent
    THEN [exc |-> "AttributeError", me |-> self[i], tars |-> streams[i]]
    ELSE IF self[i].tarstream = None
    THEN [exc |-> "none", me |-> self[i], tars |-> streams[i]]
    ELSE IF ~ok
    THEN [exc |-> "OSError", me |-> self[i], tars |-> streams[i]]
    ELSE LET tars == [streams[i] EXCEPT ![self[i].tarstream] =
                        [@ EXCEPT !.state = "closed", !.closes = @ + 1]]
         IN IF self[i].fname = NoName
            THEN [exc |-> "AssertionError", me |-> self[i], tars |-> tars]
            ELSE [exc |-> "none", me |-> [self[i] EXCEPT !.tarstream = None], tars |-> tars]

\* a finish() that gives the counter back
finish_resetting(i) ==
    /\ pc[i] = "idle"
    /\ quota > 0
    /\ quota' = quota - 1
    /\ op' = [op EXCEPT ![i] = "finish"]
    /\ value' = args.initial
    /\ \E ok \in BOOLEAN :
         LET r == finish_of(i, ok)
             h == [hist[i] EXCEPT !.calls = @ + 1, !.plain = FALSE]
         IN /\ self' = [self EXCEPT ![i] = r.me]
            /\ streams' = [streams EXCEPT ![i] = r.tars]
            /\ IF r.exc = "none" THEN Goto(i, "idle", h) ELSE Throw(i, r.exc, "finish", h)
    /\ UNCHANGED <<lookups, args, lock, files, claimed, runs>>

\* finish() called by the caller
finish(i) ==
    /\ pc[i] = "idle"
    /\ quota > 0
    /\ quota' = quota - 1
    /\ op' = [op EXCEPT ![i] = "finish"]
    /\ \E ok \in BOOLEAN :
         LET r == finish_of(i, ok)
             h == [hist[i] EXCEPT !.calls = @ + 1, !.plain = FALSE]
         IN /\ self' = [self EXCEPT ![i] = r.me]
            /\ streams' = [streams EXCEPT ![i] = r.tars]
            /\ IF r.exc = "none" THEN Goto(i, "idle", h) ELSE Throw(i, r.exc, "finish", h)
    /\ UNCHANGED <<lookups, args, shared, runs>>

\* ------------------------------------------------------------ __init__
\* a constructor that opens no shard
after_init_lazy(i) == "idle"

\* line 40: __init__ calls next_stream, whose finish() (line 44) finds
\* self.tarstream None, and which goes on to line 46
after_init(i) == "ns_lock"

\* a constructor that checks the pattern before anything else
init_validating(i) ==
    /\ pc[i] = "unborn"
    /\ i \in runs
    /\ IF args.pattern.conv = ""
       THEN /\ Throw(i, "TypeError", "init", hist[i])
            /\ UNCHANGED self
       ELSE /\ self' = [self EXCEPT ![i] =
                          [ tarstream |-> None, shard |-> Absent, count |-> 0, size |-> 0,
                            total |-> 0, fname |-> NoName, pattern |-> <<args.pattern>>,
                            maxcount |-> args.maxcount, maxsize |-> args.maxsize ]]
            /\ Goto(i, "ns_lock", hist[i])
    /\ op' = [op EXCEPT ![i] = "init"]
    /\ UNCHANGED <<lookups, args, shared, streams, runs, quota>>

\* lines 26-40
init(i) ==
    /\ pc[i] = "unborn"
    /\ i \in runs
    /\ self' = [self EXCEPT ![i] =
                  [ tarstream |-> None, shard |-> Absent, count |-> 0, size |-> 0,
                    total |-> 0, fname |-> NoName, pattern |-> <<args.pattern>>,
                    maxcount |-> args.maxcount, maxsize |-> args.maxsize ]]
    /\ op' = [op EXCEPT ![i] = "init"]
    /\ pc' = [pc EXCEPT ![i] = after_init(i)]
    /\ UNCHANGED <<lookups, args, shared, streams, exc, runs, quota, hist>>

\* --------------------------------------------------------- next_stream
\* a lock that excludes nobody
get_lock_unguarded(i) == TRUE

\* line 46: the lock can be taken
get_lock(i) == lock = 0

\* line 46: with self.shard_counter.get_lock()
next_stream_lock(i) ==
    /\ pc[i] = "ns_lock"
    /\ get_lock(i)
    /\ lock' = i
    /\ pc' = [pc EXCEPT ![i] = "ns_read"]
    /\ UNCHANGED <<lookups, args, value, files, claimed, streams, self, op, exc, runs, quota, hist>>

\* line 47
next_stream_read(i) ==
    /\ pc[i] = "ns_read"
    /\ self' = [self EXCEPT ![i].shard = value]
    /\ pc' = [pc EXCEPT ![i] = "ns_incr"]
    /\ UNCHANGED <<lookups, args, shared, streams, op, exc, runs, quota, hist>>

\* a counter that wraps around
incremented_wrapping(v) == (v + 1) % 2

\* an increment that skips an index
incremented_twice(v) == v + 2

\* an increment that is lost
incremented_lost(v) == v

\* line 48: the counter after self.shard_counter.value += 1
incremented(v) == v + 1

\* line 48
next_stream_incr(i) ==
    /\ pc[i] = "ns_incr"
    /\ value' = incremented(value)
    /\ pc' = [pc EXCEPT ![i] = "ns_unlock"]
    /\ UNCHANGED <<lookups, args, lock, files, claimed, streams, self, op, exc, runs, quota, hist>>

\* a with block that does not release the lock at its end
next_stream_unlock_late(i) ==
    /\ pc[i] = "ns_unlock"
    /\ lock' = lock
    /\ claimed' = Append(claimed, <<i, self[i].shard>>)
    /\ pc' = [pc EXCEPT ![i] = "ns_open"]
    /\ UNCHANGED <<lookups, args, value, files, streams, self, op, exc, runs, quota, hist>>

\* the end of the with block of lines 46-48: the claim of self.shard is complete
next_stream_unlock(i) ==
    /\ pc[i] = "ns_unlock"
    /\ lock' = 0
    /\ claimed' = Append(claimed, <<i, self[i].shard>>)
    /\ pc' = [pc EXCEPT ![i] = "ns_open"]
    /\ UNCHANGED <<lookups, args, value, files, streams, self, op, exc, runs, quota, hist>>

\* open(name, "wb"): creates the file or truncates it
OpenWb(name) ==
    IF name \in DOMAIN files
    THEN [files EXCEPT ![name] = [opens |-> @.opens + 1, recs |-> 0]]
    ELSE files @@ (name :> [opens |-> 1, recs |-> 0])

\* webdataset.TarWriter(stream) of line 53, for shard n in file name
TarWriter(name, n) ==
    [ fname |-> name, shard |-> n, state |-> "open", closes |-> 0,
      recs |-> 0, bytes |-> 0, last |-> 0 ]

\* a rotation that also resets the lifetime total
opened_self_resetting(i, name, t) ==
    [self[i] EXCEPT !.fname = <<name>>, !.tarstream = t, !.count = 0, !.size = 0,
                    !.total = 0]

\* the instance after lines 50-55 opened file name as stream t
opened_self(i, name, t) ==
    [self[i] EXCEPT !.fname = <<name>>, !.tarstream = t, !.count = 0, !.size = 0]

\* line 40 of __init__ and line 67 of write: where the caller of next_stream goes on
after_next_stream(i) == IF op[i] = "init" THEN "idle" ELSE "w_body"

\* lines 50-55; ok: open() succeeds
next_stream_open(i) ==
    /\ pc[i] = "ns_open"
    /\ LET p == self[i].pattern[1]
           name == Format(p, self[i].shard)
       IN IF FormatRaises(p, self[i].shard)
          THEN /\ Throw(i, "TypeError", op[i], hist[i])
               /\ UNCHANGED <<self, streams, files>>
          ELSE \E ok \in BOOLEAN :
                 IF ~ok
                 THEN /\ self' = [self EXCEPT ![i].fname = <<name>>]
                      /\ Throw(i, "OSError", op[i], hist[i])
                      /\ UNCHANGED <<streams, files>>
                 ELSE /\ files' = OpenWb(name)
                      /\ streams' = [streams EXCEPT ![i] =
                                       Append(@, TarWriter(name, self[i].shard))]
                      /\ self' = [self EXCEPT ![i] =
                                    opened_self(i, name, Len(streams[i]) + 1)]
                      /\ Goto(i, after_next_stream(i), hist[i])
    /\ UNCHANGED <<lookups, args, value, lock, claimed, op, runs, quota>>

\* --------------------------------------------------------------- write
\* a record limit compared with > instead of >=
must_rotate_late(i) ==
    \/ self[i].tarstream = None
    \/ self[i].count > self[i].maxcount
    \/ self[i].size >= self[i].maxsize

\* no byte limit
must_rotate_unsized(i) ==
    \/ self[i].tarstream = None
    \/ self[i].count >= self[i].maxcount

\* a byte limit compared with > instead of >=
must_rotate_oversize(i) ==
    \/ self[i].tarstream = None
    \/ self[i].count >= self[i].maxcount
    \/ self[i].size > self[i].maxsize

\* lines 62-66: the condition under which write() rotates
must_rotate(i) ==
    \/ self[i].tarstream = None
    \/ self[i].count >= self[i].maxcount
    \/ self[i].size >= self[i].maxsize

\* write(obj) called by the caller: lines 62-67, and of next_stream, which
\* line 67 calls, line 44: finish(); ok: its tarstream.close() succeeds
write(i) ==
    /\ pc[i] = "idle"
    /\ quota > 0
    /\ quota' = quota - 1
    /\ op' = [op EXCEPT ![i] = "write"]
    /\ LET h == [hist[i] EXCEPT !.calls = @ + 1] IN
       IF self[i].tarstream = Absent
       THEN /\ Throw(i, "AttributeError", "write", h)
            /\ UNCHANGED <<self, streams>>
       ELSE IF must_rotate(i)
       THEN \E ok \in BOOLEAN :
              LET r == finish_of(i, ok)
                  hh == [h EXCEPT !.plain = @ /\ self[i].size < self[i].maxsize]
              IN /\ self' = [self EXCEPT ![i] = r.me]
                 /\ streams' = [streams EXCEPT ![i] = r.tars]
                 /\ IF r.exc = "none"
                    THEN Goto(i, "ns_lock", hh)
                    ELSE Throw(i, r.exc, "write", hh)
       ELSE /\ Goto(i, "w_body", h)
            /\ UNCHANGED <<self, streams>>
    /\ UNCHANGED <<lookups, args, shared, runs>>

\* tarstream.write(obj) of line 68 on the file: one more record
FileWrite(name) == [files EXCEPT ![name].recs = @ + 1]

\* tarstream.write(obj) of line 68 on the stream: one more record, of sz bytes
TarWrite(t, sz) == [t EXCEPT !.recs = @ + 1, !.bytes = @ + sz, !.last = sz]

\* a write that counts the record whether or not the archive write raised
written_self_regardless(i, ok, sz) ==
    [self[i] EXCEPT !.count = @ + 1, !.total = @ + 1, !.size = @ + sz]

\* the instance after lines 68-71; ok: tarstream.write(obj) returned sz, and
\* did not raise
written_self(i, ok, sz) ==
    IF ok
    THEN [self[i] EXCEPT !.count = @ + 1, !.total = @ + 1, !.size = @ + sz]
    ELSE self[i]

\* lines 68-71; ok: tarstream.write(obj) succeeds and reports sz bytes
write_tar(i) ==
    /\ pc[i] = "w_body"
    /\ \E ok \in BOOLEAN, sz \in args.sizes :
         LET good == ok /\ Cur(i).state = "open" IN
         /\ self' = [self EXCEPT ![i] = written_self(i, good, sz)]
         /\ IF good
            THEN /\ files' = FileWrite(Cur(i).fname)
                 /\ streams' = [streams EXCEPT ![i][self[i].tarstream] = TarWrite(@, sz)]
                 /\ Goto(i, "idle", [hist[i] EXCEPT !.writes = @ + 1])
            ELSE /\ Throw(i, "OSError", "write", hist[i])
                 /\ UNCHANGED <<files, streams>>
    /\ UNCHANGED <<lookups, args, value, lock, claimed, op, runs, quota>>

\* --------------------------------------------------------------- close
\* a close that leaves self.tarstream None instead of deleting it
close_of_leaving(i, ok) ==
    LET r == finish_of(i, ok)
    IN IF r.exc # "none"
       THEN r
       ELSE [r EXCEPT !.me = [@ EXCEPT !.shard = Absent,
                                       !.count = Absent,
                                       !.size = Absent]]

\* a close() that deletes its attributes without finishing the stream
close_of_skipping(i, ok) ==
    IF self[i].tarstream = Absent
    THEN [exc |-> "AttributeError", me |-> self[i], tars |-> streams[i]]
    ELSE [exc |-> "none", tars |-> streams[i],
          me |-> [self[i] EXCEPT !.tarstream = Absent, !.shard = Absent,
                                 !.count = Absent, !.size = Absent]]

\* lines 83-87 on writer i; ok: the tarstream.close() of finish() succeeds
close_of(i, ok) ==
    LET r == finish_of(i, ok)
    IN IF r.exc # "none"
       THEN r
       ELSE [r EXCEPT !.me = [@ EXCEPT !.tarstream = Absent,
                                       !.shard = Absent,
                                       !.count = Absent,
                                       !.size = Absent]]

\* close() called by the caller
close(i) ==
    /\ pc[i] = "idle"
    /\ quota > 0
    /\ quota' = quota - 1
    /\ op' = [op EXCEPT ![i] = "close"]
    /\ \E ok \in BOOLEAN :
         LET r == close_of(i, ok)
             h == [hist[i] EXCEPT !.calls = @ + 1, !.plain = FALSE]
         IN /\ self' = [self EXCEPT ![i] = r.me]
            /\ streams' = [streams EXCEPT ![i] = r.tars]
            /\ IF r.exc = "none"
               THEN Goto(i, "idle", [h EXCEPT !.closed = TRUE])
               ELSE Throw(i, r.exc, "close", h)
    /\ UNCHANGED <<lookups, args, shared, runs>>

\* ------------------------------------------------------------ __exit__
\* Every caller uses its instance in a with block (__enter__, lines 89-91,
\* returns self and changes nothing); a caller that never closes its instance
\* behaves like one whose block has not been left yet.

\* an __exit__ that does not call close()
exit_of_nothing(i, ok) ==
    [exc |-> "none", me |-> self[i], tars |-> streams[i], closes |-> 0]

\* line 95 on writer i: one call of close(); ok: its tarstream.close() succeeds
exit_of(i, ok) ==
    LET r == close_of(i, ok)
    IN [exc |-> r.exc, me |-> r.me, tars |-> r.tars, closes |-> 1]

\* lines 93-95: the with block is left, normally or by an exception
exit(i) ==
    /\ pc[i] \in {"idle", "raised"}
    /\ op' = [op EXCEPT ![i] = "exit"]
    /\ \E ok \in BOOLEAN :
         LET r == exit_of(i, ok)
             h == [hist[i] EXCEPT !.exitCloses = @ + r.closes]
         IN /\ self' = [self EXCEPT ![i] = r.me]
            /\ streams' = [streams EXCEPT ![i] = r.tars]
            /\ IF r.exc = "none"
               THEN Goto(i, "done", [h EXCEPT !.closed = (r.me.tarstream = Absent)])
               ELSE Throw(i, r.exc, "exit", h)
    /\ UNCHANGED <<lookups, args, shared, runs, quota>>

\* ------------------------------------------------------- specification
Next ==
    \E i \in Writers :
        \/ init(i)
        \/ next_stream_lock(i)
        \/ next_stream_read(i)
        \/ next_stream_incr(i)
        \/ next_stream_unlock(i)
        \/ next_stream_open(i)
        \/ write(i)
        \/ write_tar(i)
        \/ finish(i)
        \/ close(i)
        \/ exit(i)

Spec == Init /\ [][Next]_vars

SpecSolo == InitSolo /\ [][Next]_vars

\* the steps writer i takes on its own once it runs: the constructor, the
\* statements of a call in progress, and leaving its with block
Proceed(i) ==
    \/ init(i)
    \/ next_stream_lock(i)
    \/ next_stream_read(i)
    \/ next_stream_incr(i)
    \/ next_stream_unlock(i)
    \/ next_stream_open(i)
    \/ write_tar(i)
    \/ exit(i)

\* every writer that can proceed eventually does; the lock makes no promise
\* about who gets it next, so a waiting writer is only weakly fair
Fairness == \A i \in Writers : WF_vars(Proceed(i))

\* arguments of the fairly scheduled runs: every write rotates
FairArgs ==
    [ pattern : {p \in Patterns : p.conv \in {"06d", ""}}, maxcount : {0}, maxsize : {10}, initial : {0},
      sizes : {{6}} ]

\* every writer runs; together they make up to MaxFairCalls calls
InitFair == InitWith(Writers, MaxFairCalls, FairArgs)

SpecFair == InitFair /\ [][Next]_vars /\ Fairness

\* ------------------------------------------------------ get_autocast
\* values of the precision argument: the three names the function knows and
\* others it does not (a training precision without autocast, a near miss,
\* a name in another case)
Precisions == {"amp", "amp_bfloat16", "amp_bf16", "fp32", "bf16", "AMP"}

\* what get_autocast returns: torch.cuda.amp.autocast itself, a function
\* that calls it with dtype=torch.bfloat16, or contextlib.suppress
Autocast == [manager |-> "torch.cuda.amp.autocast", dtype |-> "default"]
AutocastBfloat16 == [manager |-> "torch.cuda.amp.autocast", dtype |-> "torch.bfloat16"]
Suppress == [manager |-> "contextlib.suppress", dtype |-> "none"]

\* a get_autocast that does not know the short name
get_autocast_long_name_only(precision) ==
    IF precision = "amp" THEN Autocast
    ELSE IF precision = "amp_bfloat16" THEN AutocastBfloat16
    ELSE Suppress

\* lines 7-14 of precision.py
get_autocast(precision) ==
    IF precision = "amp" THEN Autocast
    ELSE IF precision = "amp_bfloat16" \/ precision = "amp_bf16" THEN AutocastBfloat16
    ELSE Suppress

\* a caller asks for the context of a precision
lookup ==
    /\ Len(lookups) < MaxLookups
    /\ \E precision \in Precisions :
         lookups' = Append(lookups, [precision |-> precision,
                                     context |-> get_autocast(precision)])
    /\ UNCHANGED <<args, value, lock, files, streams, self, pc, op, exc, runs, quota,
                   hist, claimed>>

\* no writer runs
InitPrecision == InitWith({}, 0, TogetherArgs)

NextPrecision == lookup

SpecPrecision == InitPrecision /\ [][NextPrecision]_vars



\* ================================================================ claims
\* the values the completed claims returned
ClaimValues == {claimed[n][2] : n \in DOMAIN claimed}

\* the writers that have read the counter and not yet left the with block
Claiming == {i \in Writers : pc[i] \in {"ns_incr", "ns_unlock"}}

\* C1: in every interleaving no two index claims return the same value, and
\* once N claims have completed the values returned are exactly
\* initial, initial+1, ..., initial+N-1.
C1_ClaimsUniqueAndGapless ==
    /\ \A m, n \in DOMAIN claimed : m # n => claimed[m][2] # claimed[n][2]
    /\ \A i \in Claiming : self[i].shard \notin ClaimValues
    /\ \A i, j \in Claiming : i # j => self[i].shard # self[j].shard
    /\ ClaimValues = args.initial .. (args.initial + Len(claimed) - 1)

\* three claims have completed, made by different writers, one of them a rotation
C1_Witness ==
    /\ Len(claimed) >= 3
    /\ \E m, n \in DOMAIN claimed : claimed[m][1] # claimed[n][1]

\* every stream constructed so far: <<writer, number>>
StreamIds == UNION {{<<i, n>> : n \in DOMAIN streams[i]} : i \in Writers}

\* pattern p formats the indices of S without error and to different names
InjectiveOn(p, S) ==
    /\ \A n \in S : ~FormatRaises(p, n)
    /\ \A m, n \in S : m # n => Format(p, m) # Format(p, n)

\* C2: with a filename pattern that is injective in the index, no file name
\* is opened for writing more than once over the whole run, by the same
\* instance or by different ones, so no two streams are ever on the same file.
C2_FilenamesOpenedOnce ==
    InjectiveOn(args.pattern, args.initial .. value) =>
        /\ \A f \in DOMAIN files : files[f].opens <= 1
        /\ \A a, b \in StreamIds :
             a # b => streams[a[1]][a[2]].fname # streams[b[1]][b[2]].fname

\* two writers hold open shards while three files exist, under "shard-%06d.tar"
C2_Witness ==
    /\ args.pattern.conv = "06d"
    /\ Cardinality(DOMAIN files) >= 3
    /\ \E i, j \in Writers : i # j /\ HasStream(i) /\ HasStream(j)
                             /\ Cur(i).state = "open" /\ Cur(j).state = "open"


Max(a, b) == IF a >= b THEN a ELSE b

\* a / b rounded up, for b >= 1
Ceil(a, b) == (a + b - 1) \div b

\* C3: with maxcount = m >= 1 and the byte limit never reached, W writes
\* through a fresh instance make consecutive groups of m: no shard ever holds
\* more than m records, every shard a rotation closed holds exactly m, and the
\* instance has opened max(1, ceil(W/m)) shards.
C3_CountRotation ==
    \A i \in Writers :
        (pc[i] # "unborn" /\ self[i].maxcount >= 1) =>
            /\ \A n \in DOMAIN streams[i] : streams[i][n].recs <= self[i].maxcount
            /\ (hist[i].plain /\ pc[i] \in {"idle", "done"}) =>
                 /\ hist[i].writes = hist[i].calls
                 /\ Len(streams[i]) = Max(1, Ceil(hist[i].writes, self[i].maxcount))
                 /\ \A n \in 1..(Len(streams[i]) - 1) :
                      streams[i][n].recs = self[i].maxcount

\* maxcount 3 and 7 writes: shards of 3, 3 and 1 records
C3_Witness ==
    /\ hist[1].plain /\ pc[1] = "idle"
    /\ self[1].maxcount = 3 /\ hist[1].writes = 7
    /\ Len(streams[1]) = 3
    /\ streams[1][1].recs = 3 /\ streams[1][2].recs = 3 /\ streams[1][3].recs = 1

C5_TotalCountsWrites ==
    \A i \in Writers : pc[i] # "unborn" => self[i].total = hist[i].writes

\* four records over at least three shards, with a finish() in between
C5_Witness ==
    \E i \in Writers :
        /\ pc[i] = "idle" /\ self[i].total >= 4
        /\ Len(streams[i]) >= 3
        /\ hist[i].calls > hist[i].writes

\* the step is a call of finish() by writer i
FinishCall(i) == op'[i] = "finish" /\ hist'[i].calls = hist[i].calls + 1

\* C6: a finish() made while no shard is open (such as the second of two in a
\* row) raises nothing and changes neither the instance nor the counter, and no
\* archive stream is closed more than once.
C6_FinishIdempotent ==
    [][ /\ \A i \in Writers :
             (FinishCall(i) /\ self[i].tarstream = None) =>
                 /\ UNCHANGED <<self, streams, value, lock, files, claimed>>
                 /\ pc'[i] = "idle"
                 /\ exc'[i] = "none"
        /\ \A i \in Writers : \A n \in DOMAIN streams'[i] : streams'[i][n].closes <= 1
      ]_vars

\* two finish() calls in a row on a new instance: its one stream closed once
C6_Witness ==
    \E i \in Writers :
        /\ pc[i] = "idle" /\ op[i] = "finish"
        /\ hist[i].calls = 2 /\ hist[i].writes = 0 /\ ~hist[i].closed
        /\ self[i].tarstream = None
        /\ Len(streams[i]) = 1 /\ streams[i][1].closes = 1

WriteRaises(i) == pc[i] # "raised" /\ pc'[i] = "raised" /\ op'[i] = "write"

\* C8: when the archive write of a write() fails, the failure reaches the
\* caller and the call increments none of the lifetime total, the per-shard
\* record count and the per-shard byte count.
C8_FailedWriteNotCounted ==
    [][ \A i \in Writers :
          /\ (pc[i] = "w_body" /\ pc'[i] # pc[i]) =>
               pc'[i] = "idle" \/ (pc'[i] = "raised" /\ exc'[i] = "OSError")
          /\ WriteRaises(i) =>
               /\ exc'[i] # "none"
               /\ self'[i].total = self[i].total
               /\ self'[i].count = self[i].count
               /\ self'[i].size = self[i].size
               /\ self'[i].total = hist'[i].writes
      ]_vars

\* an archive write that failed after an earlier one went into the same shard
C8_Witness ==
    \E i \in Writers :
        /\ pc[i] = "raised" /\ op[i] = "write" /\ exc[i] = "OSError"
        /\ HasStream(i) /\ Cur(i).state = "open"
        /\ self[i].count >= 1 /\ ~must_rotate(i)

\* the step is one of writer i
Acts(i) == hist'[i] # hist[i] \/ pc'[i] # pc[i]

\* C9: once close() has completed on an instance, no operation invoked on it
\* claims an index, changes the counter, opens a file or writes a record.
C9_ClosedIsTerminal ==
    [][ \A i \in Writers :
          (hist[i].closed /\ Acts(i)) =>
              /\ UNCHANGED <<value, lock, files, claimed, streams>>
              /\ self'[i] = self[i]
      ]_vars

\* a write() invoked after close()
C9_Witness ==
    \E i \in Writers :
        hist[i].closed /\ pc[i] = "raised" /\ op[i] = "write" /\ exc[i] = "AttributeError"

\* the completed claims of writer i
ClaimsBy(i) == {n \in DOMAIN claimed : claimed[n][1] = i}

\* C10: when the constructor returns the instance has claimed exactly one
\* index and holds one open, empty shard, with all three counts 0; constructed
\* and closed without a write, it has used one index and made one empty shard.
C10_ConstructionOpensFirstShard ==
    \A i \in Writers :
        /\ (pc[i] = "idle" /\ hist[i].calls = 0) =>
             /\ Cardinality(ClaimsBy(i)) = 1
             /\ value > self[i].shard
             /\ Len(streams[i]) = 1 /\ self[i].tarstream = 1
             /\ streams[i][1].state = "open" /\ streams[i][1].shard = self[i].shard
             /\ streams[i][1].recs = 0 /\ streams[i][1].bytes = 0
             /\ streams[i][1].fname \in DOMAIN files
             /\ self[i].count = 0 /\ self[i].size = 0 /\ self[i].total = 0
        /\ (pc[i] = "done" /\ hist[i].calls = 0 /\ ~hist[i].exitRaised) =>
             /\ Cardinality(ClaimsBy(i)) = 1
             /\ Len(streams[i]) = 1
             /\ streams[i][1].state = "closed" /\ streams[i][1].recs = 0
             /\ streams[i][1].fname \in DOMAIN files

\* an instance constructed and closed with no call in between
C10_Witness ==
    \E i \in Writers :
        /\ pc[i] = "done" /\ hist[i].calls = 0 /\ ~hist[i].exitRaised
        /\ Len(streams[i]) = 1 /\ streams[i][1].recs = 0
        /\ streams[i][1].state = "closed"
\* the step runs finish() or close() on writer i: called by the caller, by
\* __exit__, or (finish) by the rotation of a write()
Finalizes(i) ==
    /\ Acts(i)
    /\ \/ op'[i] \in {"finish", "close", "exit"}
       \/ op'[i] = "write" /\ pc[i] = "idle"

\* C11: finish() and close() leave the shared counter as it is, so the
\* counter stays above every index of a finished or closed shard and a writer
\* created later never claims such an index again.
C11_FinalizeKeepsCounter ==
    [][ /\ \A i \in Writers :
             Finalizes(i) => value' = value /\ lock' = lock /\ claimed' = claimed
        /\ \A i \in Writers : \A n \in DOMAIN streams'[i] :
             streams'[i][n].state = "closed" => streams'[i][n].shard < value'
      ]_vars

\* a writer is constructed on the counter of a closed one and reads the
\* index after the closed writer's
C11_Witness ==
    \E i, j \in Writers :
        /\ i # j /\ hist[i].closed /\ Len(streams[i]) >= 1
        /\ pc[j] = "ns_incr" /\ op[j] = "init"
        /\ self[j].shard = streams[i][Len(streams[i])].shard + 1
\* the step is a call of write() by writer i on an instance that is not closed
WriteCall(i) ==
    pc[i] = "idle" /\ op'[i] = "write" /\ Acts(i) /\ self[i].tarstream # Absent

\* at the start of the call no shard is open or a limit has been reached
AtLimit(i) ==
    \/ self[i].tarstream = None
    \/ self[i].count >= self[i].maxcount
    \/ self[i].size >= self[i].maxsize

\* C12: a write() rotates (closes the open shard, claims a new index, opens
\* a new shard) exactly when at its start no shard is open or the record count
\* is >= maxcount or the byte count is >= maxsize; in every other case it
\* writes into the current shard and leaves counter and shard index unchanged.
C12_RotatesIffAtLimit ==
    [][ \A i \in Writers :
          /\ (WriteCall(i) /\ AtLimit(i)) =>
               \/ pc'[i] = "raised" /\ exc'[i] = "OSError"
               \/ /\ pc'[i] = "ns_lock"
                  /\ self'[i].tarstream = None
                  /\ \A n \in DOMAIN streams'[i] : streams'[i][n].state = "closed"
          /\ (WriteCall(i) /\ ~AtLimit(i)) =>
               pc'[i] = "w_body" /\ self'[i] = self[i] /\ streams' = streams
          /\ (pc[i] = "ns_open" /\ pc'[i] = "w_body") =>
               /\ \E m \in DOMAIN claimed : claimed[m] = <<i, self[i].shard>>
               /\ Len(streams'[i]) = Len(streams[i]) + 1
               /\ self'[i].tarstream = Len(streams'[i])
               /\ streams'[i][Len(streams'[i])].shard = self[i].shard
               /\ streams'[i][Len(streams'[i])].state = "open"
          /\ (pc[i] = "w_body" /\ Acts(i)) =>
               /\ value' = value /\ lock' = lock
               /\ self'[i].shard = self[i].shard
               /\ self'[i].tarstream = self[i].tarstream
      ]_vars

\* a write() after finish() went into a new shard under a new index
C12_Witness ==
    \E i \in Writers :
        /\ pc[i] = "idle" /\ op[i] = "write"
        /\ hist[i].calls = 2 /\ hist[i].writes = 1
        /\ self[i].maxcount = 1000
        /\ Len(streams[i]) = 2
        /\ streams[i][1].state = "closed" /\ streams[i][1].recs = 0
        /\ streams[i][2].state = "open" /\ streams[i][2].recs = 1
        /\ streams[i][2].shard > streams[i][1].shard
\* the streams of writer i that are open
OpenStreams(i) == {n \in DOMAIN streams[i] : streams[i][n].state = "open"}

\* writer i is inside next_stream, after its finish() and before its open
Rotating(i) == pc[i] \in {"ns_lock", "ns_read", "ns_incr", "ns_unlock", "ns_open"}

\* C13: an instance owns at most one open stream, the one self.tarstream
\* names; while it claims the next index and until it opens the next file,
\* its previous stream is already closed.
C13_OneOpenStream ==
    \A i \in Writers :
        /\ Cardinality(OpenStreams(i)) <= 1
        /\ \A n \in OpenStreams(i) : self[i].tarstream = n
        /\ Rotating(i) => OpenStreams(i) = {} /\ self[i].tarstream = None

\* a rotation by write(): the first shard closed, the index claimed, the
\* next file about to be opened
C13_Witness ==
    \E i \in Writers :
        /\ pc[i] = "ns_open" /\ op[i] = "write"
        /\ Len(streams[i]) = 1
        /\ streams[i][1].state = "closed" /\ streams[i][1].recs = 1
        /\ self[i].shard > streams[i][1].shard
\* the positions of writer i inside the with block of next_stream
InLock(i) == pc[i] \in {"ns_read", "ns_incr", "ns_unlock"}

\* C14: the holder of the counter lock is inside the read-and-increment
\* block; no step it takes while holding the lock opens a file, writes to an
\* archive or closes one, and every step that does such I/O is taken by an
\* instance that does not hold the lock.
C14_NoIOUnderLock ==
    [][ \A i \in Writers :
          /\ lock = i => InLock(i)
          /\ lock' = i => pc'[i] \in {"ns_read", "ns_incr", "ns_unlock"}
          /\ (lock = i /\ Acts(i)) =>
               files' = files /\ streams' = streams /\ self'[i].tarstream = self[i].tarstream
          /\ streams'[i] # streams[i] => lock # i /\ lock' = lock
      ]_vars

\* one writer holds the lock while another, rotating out of a written shard,
\* waits for it
C14_Witness ==
    \E i, j \in Writers :
        /\ i # j /\ lock = i /\ pc[i] = "ns_incr"
        /\ pc[j] = "ns_lock" /\ op[j] = "write"
        /\ Len(streams[j]) = 1 /\ streams[j][1].recs = 1
\* the indices of the shards writer i has opened
ShardsOf(i) == {streams[i][n].shard : n \in DOMAIN streams[i]}

\* C15 as stated: the shard an instance opens after shard i has index i+1
C15_NextIndexIsSuccessor ==
    \A i \in Writers : \A n \in DOMAIN streams[i] :
        n + 1 \in DOMAIN streams[i] =>
            streams[i][n + 1].shard = streams[i][n].shard + 1

\* C15: UNOPENED -> OPEN_SHARD[i] -> (rotate) -> OPEN_SHARD[k] -> ... -> CLOSED
\* with k > i: the shard an instance opens after shard i has a greater index,
\* and every index between the two was claimed meanwhile, by another instance
\* or by a rotation of this instance whose open failed; so k = i+1 exactly
\* when no other claim came between. An instance is never at two shards.
C15_NextIndexFollowsClaims ==
    \A i \in Writers :
        /\ \A n \in DOMAIN streams[i] :
             n + 1 \in DOMAIN streams[i] =>
                 /\ streams[i][n + 1].shard > streams[i][n].shard
                 /\ streams[i][n].state = "closed"
                 /\ \A k \in (streams[i][n].shard + 1) .. (streams[i][n + 1].shard - 1) :
                      \E m \in DOMAIN claimed :
                          /\ claimed[m][2] = k
                          /\ claimed[m][1] = i => k \notin ShardsOf(i)
        /\ HasStream(i) => self[i].shard = streams[i][Len(streams[i])].shard
        /\ hist[i].closed => self[i].tarstream = Absent /\ OpenStreams(i) = {}

\* a writer whose next shard is not the successor: another writer claimed
\* the index between
C15_Witness ==
    \E i, j \in Writers :
        /\ i # j /\ Len(streams[i]) = 2
        /\ streams[i][2].shard = streams[i][1].shard + 2
        /\ streams[i][2].state = "open"
        /\ \E m \in DOMAIN claimed : claimed[m] = <<j, streams[i][1].shard + 1>>
\* the pattern has no substitution site
Malformed == args.pattern.conv = ""

\* C16: construction does not check the pattern: whatever the pattern, the
\* constructor stores it and enters its first rotation. A malformed pattern
\* raises only where that rotation formats the filename, after the index
\* was claimed and before any file is opened.
C16_PatternFailsAtFirstRotation ==
    [][ \A i \in Writers :
          /\ (pc[i] = "unborn" /\ Acts(i)) =>
               /\ pc'[i] = "ns_lock" /\ exc'[i] = "none"
               /\ self'[i].pattern = <<args.pattern>>
          /\ (pc[i] = "ns_open" /\ Acts(i) /\ Malformed) =>
               /\ exc'[i] = "TypeError"
               /\ op[i] = "init" /\ Cardinality(ClaimsBy(i)) = 1 /\ value > args.initial
               /\ files' = files /\ streams'[i] = << >>
          /\ exc'[i] = "TypeError" =>
               /\ Malformed /\ pc'[i] = "failed" /\ streams'[i] = << >>
               /\ exc[i] # "TypeError" => pc[i] = "ns_open"
      ]_vars

\* a malformed pattern has raised in the first rotation; the index it
\* claimed is spent
C16_Witness ==
    \E i \in Writers :
        /\ Malformed /\ exc[i] = "TypeError" /\ pc[i] = "failed"
        /\ claimed # << >> /\ claimed[1] = <<i, args.initial>>
        /\ value > args.initial
        /\ DOMAIN files = {}
\* no exception has left a call of writer i
Clean(i) == exc[i] = "none" /\ hist[i].plain /\ ~hist[i].exitRaised

\* C17: under fair scheduling every rotation that starts obtains the lock
\* and an index, and every writer comes to its end; a writer none of whose
\* calls failed ends closed, with no stream open and the lock free.
C17_AllComplete ==
    \A i \in Writers :
        /\ (pc[i] = "ns_lock") ~> (pc[i] = "ns_open" /\ lock # i)
        /\ <>[](IF Clean(i)
                THEN pc[i] = "done" /\ hist[i].closed /\ OpenStreams(i) = {} /\ lock = 0
                ELSE pc[i] \in {"done", "failed"})

\* every writer is done and closed without a failure, one of them after a
\* write that rotated; one index more than there are writers was claimed
C17_Witness ==
    /\ \A i \in Writers :
         /\ pc[i] = "done" /\ Clean(i) /\ hist[i].closed
         /\ \A n \in DOMAIN streams[i] : streams[i][n].state = "closed"
    /\ \E i \in Writers : hist[i].writes = 1 /\ Len(streams[i]) = 2
    /\ Len(claimed) = NumWriters + 1
\* the writers whose increment is done and whose with block has not ended
Incremented == {i \in Writers : pc[i] = "ns_unlock"}

\* C18: no step lowers the shared counter, and the counter is its initial
\* value plus the number of index claims completed so far by all writers.
C18_CounterMonotone ==
    [][ /\ value' >= value
        /\ value' - value \in {0, 1}
        /\ value = args.initial + Len(claimed) + Cardinality(Incremented)
        /\ value' = args.initial + Len(claimed')
                      + Cardinality({i \in Writers : pc'[i] = "ns_unlock"})
      ]_vars

\* three claims are complete, by more than one writer, and the counter is
\* three above its initial value
C18_Witness ==
    /\ Len(claimed) = 3 /\ Incremented = {}
    /\ value = args.initial + 3
    /\ \E m, n \in DOMAIN claimed : claimed[m][1] # claimed[n][1]
    /\ \E i \in Writers : hist[i].closed
\* the step is a close() of writer i, called directly or by __exit__
Closing(i) == Acts(i) /\ op'[i] \in {"close", "exit"}

\* C19: a stream is closed at most once and only by a step of the instance
\* that opened it; every stream but the one the instance holds is closed;
\* a close() either leaves every stream of the instance closed exactly once
\* or raises because closing the held stream failed.
C19_StreamsClosedOnce ==
    [][ \A i \in Writers :
          /\ \A n \in DOMAIN streams'[i] :
               /\ streams'[i][n].closes <= 1
               /\ streams'[i][n].state = "closed" <=> streams'[i][n].closes = 1
               /\ n # self'[i].tarstream => streams'[i][n].state = "closed"
               /\ n \in DOMAIN streams[i] /\ streams[i][n].state = "closed"
                    => streams'[i][n] = streams[i][n]
          /\ \A j \in Writers : (j # i /\ Acts(j)) => streams'[i] = streams[i]
          /\ Closing(i) =>
               \/ /\ hist'[i].closed
                  /\ self'[i].tarstream = Absent
                  /\ \A n \in DOMAIN streams'[i] : streams'[i][n].closes = 1
               \/ /\ HasStream(i) /\ Cur(i).state = "open"
                  /\ streams' = streams /\ exc'[i] = "OSError"
      ]_vars

\* an instance that opened two streams and wrote to both is closed: each
\* stream was closed once
C19_Witness ==
    \E i \in Writers :
        /\ hist[i].closed /\ Clean(i) /\ pc[i] = "done"
        /\ Len(streams[i]) = 2
        /\ \A n \in DOMAIN streams[i] :
             streams[i][n].closes = 1 /\ streams[i][n].recs = 1
\* the precision names get_autocast was called with so far
Asked == {lookups[n].precision : n \in DOMAIN lookups}

\* C20: every call of get_autocast returns one of three contexts, chosen by
\* the precision name alone: "amp" the default autocast, "amp_bfloat16" and
\* "amp_bf16" the same bfloat16 autocast, any other name the no-op context;
\* two calls with the same name return the same context.
C20_AutocastThreeWay ==
    /\ \A n \in DOMAIN lookups :
         LET p == lookups[n].precision
             c == lookups[n].context
         IN /\ c \in {Autocast, AutocastBfloat16, Suppress}
            /\ p = "amp" <=> c = Autocast
            /\ p \in {"amp_bfloat16", "amp_bf16"} <=> c = AutocastBfloat16
            /\ p \notin {"amp", "amp_bfloat16", "amp_bf16"} <=> c = Suppress
    /\ \A m, n \in DOMAIN lookups :
         lookups[m].precision = lookups[n].precision
             => lookups[m].context = lookups[n].context

\* both bfloat16 names, "amp" and an unknown name were asked for; the two
\* bfloat16 names got the same context
C20_Witness ==
    /\ {"amp", "amp_bfloat16", "amp_bf16", "bf16"} \subseteq Asked
    /\ \E m, n \in DOMAIN lookups :
         /\ lookups[m].precision = "amp_bfloat16"
         /\ lookups[n].precision = "amp_bf16"
         /\ lookups[m].context = lookups[n].context
         /\ lookups[m].context = AutocastBfloat16
====
